---- MODULE Spec2Model ----
(***************************************************************************)
(* Model of src/api.py: the Flask relay with the /api/status and           *)
(* /api/analyze routes, the two provider adapters, the prompt builder and  *)
(* the response parser parse_ai_response.                                  *)
(*                                                                         *)
(* Texts are sequences of tokens.  A token stands for a run of characters  *)
(* of the Python string; the operators below act on the tokens the way the *)
(* regular expressions, json.loads and print act on the characters.        *)
(***************************************************************************)
EXTENDS Integers, Sequences, FiniteSets, TLC

VARIABLES
    API_KEY,        \* module global, api.py:16
    API_PROVIDER,   \* module global, api.py:17
    API_MODEL,      \* module global, api.py:18
    route,          \* route of the request being handled or last answered
    pc,             \* "idle", or "awaiting" while requests.post is blocked
    data,           \* request.json of the analyze request
    outbound,       \* requests.post calls issued for the current request
    upstream,       \* what requests.post came back with
    response,       \* HTTP response sent for the last request
    response_text,  \* argument of parse_ai_response
    parsed          \* outcome of parse_ai_response(response_text)

vars == <<API_KEY, API_PROVIDER, API_MODEL, route, pc, data, outbound,
          upstream, response, response_text, parsed>>

---------------------------------------------------------------------------
(* Bounds *)

MaxLen == 4

MaxFlags == 1

---------------------------------------------------------------------------
(* Tokens of a provider reply *)

LBRACE == "{"
RBRACE == "}"
\* the markdown fence marker: three backquotes
FENCE == "<fence>"
\* the fence marker followed by the word json
FENCE_JSON == "<fence>json"
WS == " "
\* a complete JSON member  "sentiment": "mixed"
M_SENTIMENT_MIXED == "\"sentiment\":\"mixed\""
\* a complete JSON member  "summary": "ok"
M_SUMMARY == "\"summary\":\"ok\""
W_POSITIVE == "Positive"
W_NEGATIVE == "negative"
\* a lone surrogate code point, as json.loads yields for the escape \ud800
SURROGATE == "\\ud800"

Alphabet == {LBRACE, RBRACE, FENCE, FENCE_JSON, WS, M_SENTIMENT_MIXED,
             M_SUMMARY, W_POSITIVE, W_NEGATIVE, SURROGATE}

Members == {M_SENTIMENT_MIXED, M_SUMMARY}

MemberKey(tok) == IF tok = M_SENTIMENT_MIXED THEN "sentiment" ELSE "summary"

MemberValue(tok) == IF tok = M_SENTIMENT_MIXED THEN "mixed" ELSE "ok"

\* number of characters of a token
Width(tok) ==
    CASE tok = FENCE -> 3
      [] tok = FENCE_JSON -> 7
      [] tok = M_SENTIMENT_MIXED -> 19
      [] tok = M_SUMMARY -> 14
      [] tok \in {W_POSITIVE, W_NEGATIVE} -> 8
      [] OTHER -> 1

RECURSIVE CharLen(_)
CharLen(t) == IF t = <<>> THEN 0 ELSE Width(Head(t)) + CharLen(Tail(t))

TextsUpTo(n) == UNION {[1..k -> Alphabet] : k \in 0..n}

---------------------------------------------------------------------------
(* Python values *)

None == "<None>"

Truthy(v) == v # None /\ v # ""

\* a or b
PyOr(a, b) == IF Truthy(a) THEN a ELSE b

Returned(v) == [kind |-> "return", value |-> v]

Raised(e) == [kind |-> "raise", exc |-> e]

NotRun == [kind |-> "none"]

---------------------------------------------------------------------------
(* parse_ai_response *)

\* re.search of a brace block in response_text: the leftmost opening brace,
\* then greedily to the last closing brace after it.
ReSearchBraces(t) ==
    LET opens == {i \in 1..Len(t) : t[i] = LBRACE}
        closes == {i \in 1..Len(t) : t[i] = RBRACE}
    IN  IF opens = {} \/ closes = {}
        THEN [matched |-> FALSE, group |-> <<>>]
        ELSE LET first == CHOOSE i \in opens : \A k \in opens : i <= k
                 last == CHOOSE j \in closes : \A k \in closes : k <= j
             IN  IF first < last
                 THEN [matched |-> TRUE, group |-> SubSeq(t, first, last)]
                 ELSE [matched |-> FALSE, group |-> <<>>]

IsFence(tok) == tok \in {FENCE_JSON, FENCE}

\* re.sub of the pattern  fence-json | fence  by the empty string
ReSubFences(s) == SelectSeq(s, LAMBDA tok : ~IsFence(tok))

RECURSIVE LStrip(_)
LStrip(s) == IF s # <<>> /\ Head(s) = WS THEN LStrip(Tail(s)) ELSE s

RECURSIVE RStrip(_)
RStrip(s) ==
    IF s # <<>> /\ s[Len(s)] = WS THEN RStrip(SubSeq(s, 1, Len(s) - 1)) ELSE s

\* str.strip()
Strip(s) == RStrip(LStrip(s))

\* json.loads(json_str): an object with no member or one member, JSON
\* whitespace allowed between the tokens; anything else is a decode error.
JsonLoads(s) ==
    LET body == SelectSeq(s, LAMBDA tok : tok # WS)
        n == Len(body)
    IN  IF n >= 2 /\ body[1] = LBRACE /\ body[n] = RBRACE
        THEN IF n = 2
             THEN Returned(<<>>)
             ELSE IF n = 3 /\ body[2] \in Members
                  THEN Returned([k \in {MemberKey(body[2])} |-> MemberValue(body[2])])
                  ELSE Raised("JSONDecodeError")
        ELSE Raised("JSONDecodeError")

\* dict.get(key, default)
DictGet(d, key, default) == IF key \in DOMAIN d THEN d[key] ELSE default

\* re.search(r'positive', response_text, re.IGNORECASE)
SearchPositive(t) ==
    \E i \in 1..Len(t) : t[i] = W_POSITIVE

\* re.search(r'negative', response_text, re.IGNORECASE)
SearchNegative(t) ==
    \E i \in 1..Len(t) : t[i] = W_NEGATIVE

SUMMARY_LIMIT == 200

\* response_text[:200] + '...' if len(response_text) > 200 else response_text
\* the first `chars` characters of `of`, then '...' when `ellipsis`
FallbackSummary(t) ==
    IF CharLen(t) > SUMMARY_LIMIT
    THEN [of |-> t, chars |-> SUMMARY_LIMIT, ellipsis |-> TRUE]
    ELSE [of |-> t, chars |-> CharLen(t), ellipsis |-> FALSE]

\* print(s) to sys.stdout: encoding a lone surrogate raises
\* UnicodeEncodeError
PrintRaises(t) == \E i \in 1..Len(t) : t[i] = SURROGATE

\* lines 194-200
JsonResult(result) ==
    [sentiment |-> DictGet(result, "sentiment", "neutral"),
     summary |-> DictGet(result, "summary", ""),
     keywords |-> DictGet(result, "keywords", <<>>),
     suggestion |-> DictGet(result, "suggestion", ""),
     error |-> FALSE]

\* lines 203-215
FallbackResult(t) ==
    [sentiment |-> IF SearchPositive(t) THEN "positive"
                   ELSE IF SearchNegative(t) THEN "negative"
                   ELSE "neutral",
     summary |-> FallbackSummary(t),
     keywords |-> <<>>,
     error |-> FALSE,
     raw_response |-> t]

\* an error result that also carries placeholder analysis fields
ParseExceptHandlerWithFields(t, e) ==
    IF PrintRaises(t)
    THEN Raised("UnicodeEncodeError")
    ELSE Returned([error |-> TRUE,
                   sentiment |-> "neutral",
                   summary |-> "",
                   keywords |-> <<>>,
                   message |-> "Error parsing AI response: " \o e,
                   raw_response |-> t])

\* lines 216-223: the two prints, then the error result
ParseExceptHandler(t, e) ==
    IF PrintRaises(t)
    THEN Raised("UnicodeEncodeError")
    ELSE Returned([error |-> TRUE,
                   message |-> "Error parsing AI response: " \o e,
                   raw_response |-> t])

ParseAiResponse(t) ==
    LET json_match == ReSearchBraces(t)
    IN  IF json_match.matched
        THEN LET json_str == Strip(ReSubFences(json_match.group))
                 loaded == JsonLoads(json_str)
             IN  IF loaded.kind = "raise"
                 THEN ParseExceptHandler(t, loaded.exc)
                 ELSE Returned(JsonResult(loaded.value))
        ELSE Returned(FallbackResult(t))

---------------------------------------------------------------------------
(* Configuration, lines 16-26 *)

DEFAULT_PROVIDER == "openai"

DEFAULT_MODEL == "gpt-3.5-turbo"

\* os.getenv(name, default)
Getenv(value, default) == IF value = None THEN default ELSE value

\* str.lower() on the provider names of EnvProviders
Lower(s) ==
    CASE s = "OpenAI" -> "openai"
      [] s = "Anthropic" -> "anthropic"
      [] OTHER -> s

API_ENDPOINTS ==
    [openai |-> "https://api.openai.com/v1/chat/completions",
     anthropic |-> "https://api.anthropic.com/v1/messages"]

\* values of OPENAI_API_KEY and of ANTHROPIC_API_KEY in the environment
EnvKeys == {None, "", "sk-test"}

\* values of API_PROVIDER in the environment
EnvProviders == {None, "OpenAI", "anthropic", "Anthropic", "azure"}

\* values of API_MODEL in the environment
EnvModels == {None, "claude-3-haiku"}

\* line 16
LoadApiKey(openai_key, anthropic_key) ==
    PyOr(Getenv(openai_key, None), Getenv(anthropic_key, None))

\* line 17
LoadApiProvider(env_provider) == Lower(Getenv(env_provider, DEFAULT_PROVIDER))

\* line 18
LoadApiModel(env_model) == Getenv(env_model, DEFAULT_MODEL)

---------------------------------------------------------------------------
(* HTTP responses *)

\* jsonify(body), status
Jsonify(body, status) == [status |-> status, json |-> TRUE, body |-> body]

\* What Flask answers when the view function lets an exception escape
UnhandledError(e) ==
    [status |-> 500, json |-> FALSE, body |-> [html |-> "Internal Server Error"]]

NoResponse == [status |-> 0, json |-> FALSE, body |-> <<>>]

---------------------------------------------------------------------------
(* status, lines 28-49 *)

\* the key test written as  API_KEY is None  and the provider test dropped
StatusViewKeyIsNone(key, provider, model) ==
    IF key = None
    THEN Jsonify([status |-> "error", message |-> "API key not configured."], 400)
    ELSE Jsonify([status |-> "ok",
                  message |-> "AI API is running and configured for " \o provider,
                  model |-> model,
                  provider |-> provider],
                 200)

StatusView(key, provider, model) ==
    IF ~Truthy(key)
    THEN Jsonify([status |-> "error",
                  message |-> "API key not configured. Please set the API key in environment variables."],
                 400)
    ELSE IF provider \notin DOMAIN API_ENDPOINTS
    THEN Jsonify([status |-> "error",
                  message |-> "Unknown API provider: " \o provider],
                 400)
    ELSE Jsonify([status |-> "ok",
                  message |-> "AI API is running and configured for " \o provider,
                  model |-> model,
                  provider |-> provider],
                 200)

---------------------------------------------------------------------------
(* JSON request bodies: the value of request.json *)

JNull == [type |-> "null"]

JObject(f) == [type |-> "object", fields |-> f]

JArray(items) == [type |-> "array", items |-> items]

\* a JSON string, as its sequence of words
JString(words) == [type |-> "string", words |-> words]

JNumber(n) == [type |-> "number", value |-> n]

JBool(b) == [type |-> "bool", truth |-> b]

OptionFlags == {"includeSentiment", "includeSummary", "includeKeywords",
                "includeSuggestion"}

\* options objects: at most MaxFlags of the flags, each true or false
OptionObjects ==
    {JObject(f) : f \in UNION {[fl -> BOOLEAN] :
                    fl \in {s \in SUBSET OptionFlags : Cardinality(s) <= MaxFlags}}}

MessageValues == {JString(<<>>), JString(<<"Great", "apples">>)}

\* options values that are not objects
OptionNonObjects == {JNull}

ObjectBodies ==
    {JObject(<<>>)}
    \cup {JObject([k \in {"options"} |-> o]) : o \in OptionObjects \cup OptionNonObjects}
    \cup {JObject([k \in {"message"} |-> m]) : m \in MessageValues}
    \cup {JObject([message |-> m, options |-> o]) :
            m \in MessageValues, o \in OptionObjects \cup OptionNonObjects}

NonObjectBodies ==
    {JNull,
     JArray(<<>>), JArray(<<"message">>), JArray(<<"hello">>),
     JString(<<>>), JString(<<"a", "message">>), JString(<<"hello">>),
     JNumber(0), JNumber(5), JBool(FALSE), JBool(TRUE)}

RequestBodies == ObjectBodies \cup NonObjectBodies

\* not data
PyNot(d) ==
    CASE d.type = "null" -> TRUE
      [] d.type = "object" -> DOMAIN d.fields = {}
      [] d.type = "array" -> d.items = <<>>
      [] d.type = "string" -> d.words = <<>>
      [] d.type = "number" -> d.value = 0
      [] d.type = "bool" -> ~d.truth

\* 'message' not in data: key test on a dict, element test on a list,
\* substring test on a str, TypeError on anything else
MessageNotIn(d) ==
    CASE d.type = "object" -> Returned("message" \notin DOMAIN d.fields)
      [] d.type = "array" ->
            Returned(\A i \in 1..Len(d.items) : d.items[i] # "message")
      [] d.type = "string" ->
            Returned(\A i \in 1..Len(d.words) : d.words[i] # "message")
      [] OTHER -> Raised("TypeError")

\* data['message']
GetItemMessage(d) ==
    IF d.type = "object"
    THEN IF "message" \in DOMAIN d.fields
         THEN Returned(d.fields["message"])
         ELSE Raised("KeyError")
    ELSE Raised("TypeError")

\* lines 63-67
DEFAULT_OPTIONS ==
    JObject([includeKeywords |-> TRUE, includeSentiment |-> TRUE,
             includeSummary |-> TRUE])

\* data.get('options', {...})
GetOptions(d) ==
    IF "options" \in DOMAIN d.fields THEN d.fields["options"] ELSE DEFAULT_OPTIONS

---------------------------------------------------------------------------
(* create_analysis_prompt, lines 151-181 *)

\* options.get(flag, default) followed by the truth test of the if
OptionEnabled(options, flag, default) == DictGet(options.fields, flag, default)

TaskList(options) ==
    (IF OptionEnabled(options, "includeSentiment", TRUE)
     THEN <<"sentiment (positive, negative, or neutral)">> ELSE <<>>)
    \o (IF OptionEnabled(options, "includeSummary", TRUE)
        THEN <<"brief summary in 2-3 sentences">> ELSE <<>>)
    \o (IF OptionEnabled(options, "includeKeywords", TRUE)
        THEN <<"up to 5 key topics or keywords">> ELSE <<>>)
    \o (IF OptionEnabled(options, "includeSuggestion", FALSE)
        THEN <<"suggested response">> ELSE <<>>)

\* options.get on a value that is not a dict raises AttributeError
CreateAnalysisPrompt(message, options) ==
    IF options.type # "object"
    THEN Raised("AttributeError")
    ELSE Returned([tasks |-> TaskList(options), message |-> message])

---------------------------------------------------------------------------
(* Provider adapters, lines 89-149 *)

TEMPERATURE == "0.1"

ANTHROPIC_MAX_TOKENS == 500

\* lines 91-109: the prompt, then the requests.post call
OpenaiCall(message, options, key, model) ==
    LET prompt == CreateAnalysisPrompt(message, options)
    IN  IF prompt.kind = "raise"
        THEN prompt
        ELSE Returned([url |-> API_ENDPOINTS["openai"],
                       headers |-> [Authorization |-> <<"Bearer", key>>],
                       payload |-> [model |-> model,
                                    content |-> prompt.value,
                                    temperature |-> TEMPERATURE]])

\* lines 121-141
AnthropicCall(message, options, key, model) ==
    LET prompt == CreateAnalysisPrompt(message, options)
    IN  IF prompt.kind = "raise"
        THEN prompt
        ELSE Returned([url |-> API_ENDPOINTS["anthropic"],
                       headers |-> [xapikey |-> key,
                                    anthropicversion |-> "2023-06-01"],
                       payload |-> [model |-> model,
                                    max_tokens |-> ANTHROPIC_MAX_TOKENS,
                                    content |-> prompt.value,
                                    temperature |-> TEMPERATURE]])

\* What requests.post comes back with: an exception, or a response whose
\* body has the envelope of one of the providers or of neither.
PostException(e) == [kind |-> "exception", exc |-> e]

PostResponse(code, envelope, content) ==
    [kind |-> "response", status_code |-> code, envelope |-> envelope,
     content |-> content]

NoUpstream == [kind |-> "none"]

ReplyTexts ==
    {<<>>,
     <<W_POSITIVE>>,
     <<W_NEGATIVE, WS, W_POSITIVE>>,
     <<RBRACE, LBRACE>>,
     <<SURROGATE>>,
     <<LBRACE, RBRACE>>,
     <<WS, LBRACE, M_SENTIMENT_MIXED, RBRACE, WS>>,
     <<FENCE_JSON, LBRACE, M_SUMMARY, RBRACE, FENCE>>,
     <<LBRACE, FENCE, RBRACE>>,
     <<LBRACE, LBRACE, RBRACE, RBRACE>>,
     <<W_POSITIVE, LBRACE, RBRACE, RBRACE>>,
     <<LBRACE, SURROGATE, RBRACE>>}

Upstreams ==
    {PostException(e) : e \in {"Timeout", "ConnectionError"}}
    \cup {PostResponse(code, "invalid", <<>>) : code \in {401, 500}}
    \cup {PostResponse(200, "invalid", <<>>)}
    \cup {PostResponse(200, env, t) : env \in {"openai", "anthropic"}, t \in ReplyTexts}

\* lines 111-115: the status test, response.json() and
\* result['choices'][0]['message']['content'].strip()
OpenaiExtract(u) ==
    IF u.kind = "exception" THEN Raised(u.exc)
    ELSE IF u.status_code # 200 THEN Raised("API Error")
    ELSE IF u.envelope = "invalid" THEN Raised("JSONDecodeError")
    ELSE IF u.envelope # "openai" THEN Raised("KeyError")
    ELSE Returned(Strip(u.content))

\* lines 143-147: the status test, response.json() and
\* result['content'][0]['text'].strip()
AnthropicExtract(u) ==
    IF u.kind = "exception" THEN Raised(u.exc)
    ELSE IF u.status_code # 200 THEN Raised("API Error")
    ELSE IF u.envelope = "invalid" THEN Raised("JSONDecodeError")
    ELSE IF u.envelope # "anthropic" THEN Raised("KeyError")
    ELSE Returned(Strip(u.content))

---------------------------------------------------------------------------
(* analyze_message, lines 51-87 *)

ErrorPayload(msg) == [error |-> TRUE, message |-> msg]

\* lines 82-87
AnalyzeExceptHandler(e) ==
    Jsonify(ErrorPayload("Error analyzing message: " \o e), 500)

\* an else branch that falls through to the second adapter
SelectAdapterElseAnthropic(provider) ==
    IF provider = "openai" THEN "openai" ELSE "anthropic"

\* lines 70-78: the if / elif / else on API_PROVIDER
SelectAdapter(provider) ==
    IF provider = "openai" THEN "openai"
    ELSE IF provider = "anthropic" THEN "anthropic"
    ELSE "unsupported"

\* line 56: not data or 'message' not in data
NoMessageProvided(d) ==
    IF PyNot(d) THEN Returned(TRUE) ELSE MessageNotIn(d)

\* lines 54-78, up to the requests.post call of the adapter: either the
\* response is decided (done), or a call goes out and the handler waits.
AnalyzeStart(d, key, provider, model) ==
    LET missing == NoMessageProvided(d)
        Done(r) == [done |-> TRUE, response |-> r]
    IN  IF missing.kind = "raise" THEN Done(UnhandledError(missing.exc))
        ELSE IF missing.value
        THEN Done(Jsonify(ErrorPayload("No message provided"), 400))
        ELSE LET message == GetItemMessage(d)
             IN  IF message.kind = "raise"
                 THEN Done(UnhandledError(message.exc))
                 ELSE LET options == GetOptions(d)
                          adapter == SelectAdapter(provider)
                          call == IF adapter = "openai"
                                  THEN OpenaiCall(message.value, options, key, model)
                                  ELSE AnthropicCall(message.value, options, key, model)
                      IN  IF adapter = "unsupported"
                          THEN Done(Jsonify(ErrorPayload("Unsupported API provider: " \o provider), 400))
                          ELSE IF call.kind = "raise"
                          THEN Done(AnalyzeExceptHandler(call.exc))
                          ELSE [done |-> FALSE, call |-> call.value]

\* the rest of the adapter and of the handler once requests.post is back:
\* the text handed to parse_ai_response (if any), its outcome, the response
AnalyzeFinish(provider, u) ==
    LET text == IF SelectAdapter(provider) = "openai"
                THEN OpenaiExtract(u) ELSE AnthropicExtract(u)
    IN  IF text.kind = "raise"
        THEN [response_text |-> <<>>, parsed |-> NotRun,
              response |-> AnalyzeExceptHandler(text.exc)]
        ELSE LET result == ParseAiResponse(text.value)
             IN  [response_text |-> text.value, parsed |-> result,
                  response |-> IF result.kind = "raise"
                               THEN AnalyzeExceptHandler(result.exc)
                               ELSE Jsonify(result.value, 200)]

---------------------------------------------------------------------------
(* The server *)

Init ==
    /\ \E ok \in EnvKeys, ak \in EnvKeys : API_KEY = LoadApiKey(ok, ak)
    /\ \E ep \in EnvProviders : API_PROVIDER = LoadApiProvider(ep)
    /\ \E em \in EnvModels : API_MODEL = LoadApiModel(em)
    /\ route = "none"
    /\ pc = "idle"
    /\ data = JNull
    /\ outbound = <<>>
    /\ upstream = NoUpstream
    /\ response = NoResponse
    /\ response_text = <<>>
    /\ parsed = NotRun

\* GET /api/status
Status ==
    /\ pc = "idle"
    /\ route' = "status"
    /\ response' = StatusView(API_KEY, API_PROVIDER, API_MODEL)
    /\ data' = JNull
    /\ outbound' = <<>>
    /\ upstream' = NoUpstream
    /\ response_text' = <<>>
    /\ parsed' = NotRun
    /\ UNCHANGED <<API_KEY, API_PROVIDER, API_MODEL, pc>>

\* POST /api/analyze with request.json = d, up to the response or to the
\* outbound call
AnalyzeRequest(d) ==
    /\ pc = "idle"
    /\ route' = "analyze"
    /\ data' = d
    /\ upstream' = NoUpstream
    /\ response_text' = <<>>
    /\ parsed' = NotRun
    /\ LET start == AnalyzeStart(d, API_KEY, API_PROVIDER, API_MODEL)
       IN  IF start.done
           THEN /\ response' = start.response
                /\ outbound' = <<>>
                /\ pc' = "idle"
           ELSE /\ response' = NoResponse
                /\ outbound' = <<start.call>>
                /\ pc' = "awaiting"
    /\ UNCHANGED <<API_KEY, API_PROVIDER, API_MODEL>>

\* requests.post returns or raises; the handler runs to its response
ProviderReply(u) ==
    /\ pc = "awaiting"
    /\ upstream' = u
    /\ LET fin == AnalyzeFinish(API_PROVIDER, u)
       IN  /\ response_text' = fin.response_text
           /\ parsed' = fin.parsed
           /\ response' = fin.response
    /\ pc' = "idle"
    /\ UNCHANGED <<API_KEY, API_PROVIDER, API_MODEL, route, data, outbound>>

Next ==
    \/ Status
    \/ \E d \in RequestBodies : AnalyzeRequest(d)
    \/ \E u \in Upstreams : ProviderReply(u)

Spec == Init /\ [][Next]_vars

---------------------------------------------------------------------------
(* The parser on its own: every text of at most MaxLen tokens *)

InitParse ==
    /\ API_KEY = None
    /\ API_PROVIDER = DEFAULT_PROVIDER
    /\ API_MODEL = DEFAULT_MODEL
    /\ route = "none"
    /\ pc = "idle"
    /\ data = JNull
    /\ outbound = <<>>
    /\ upstream = NoUpstream
    /\ response = NoResponse
    /\ response_text \in TextsUpTo(MaxLen)
    /\ parsed = NotRun

ParseCall ==
    /\ parsed = NotRun
    /\ parsed' = ParseAiResponse(response_text)
    /\ UNCHANGED <<API_KEY, API_PROVIDER, API_MODEL, route, pc, data,
                   outbound, upstream, response, response_text>>

NextParse == ParseCall

SpecParse == InitParse /\ [][NextParse]_vars

---------------------------------------------------------------------------
(* Properties *)

AnalysisFields == {"sentiment", "summary", "keywords"}

Sentiments == {"positive", "negative", "neutral"}

Answered == route = "analyze" /\ pc = "idle"

\* the request body is an object with a message field
CarriesMessage(d) == d.type = "object" /\ "message" \in DOMAIN d.fields

\* the brace block of the text exists and its fence-stripped form does not
\* decode
DecodeFails(t) ==
    /\ ReSearchBraces(t).matched
    /\ JsonLoads(Strip(ReSubFences(ReSearchBraces(t).group))).kind = "raise"

\* C1: parse_ai_response never raises: every call returns a result, and a
\* call whose brace block failed to decode returns a result with error=true.
C1_ParseNeverRaises ==
    parsed # NotRun =>
        /\ parsed.kind = "return"
        /\ DecodeFails(response_text) => parsed.value.error = TRUE

\* C2: every answered analyze request ends in 200 with an AnalysisResult, or
\* in 400 or 500 with the JSON payload {error: true, message}.
C2_StructuredOutcome ==
    Answered =>
        /\ response.json
        /\ \/ response.status = 200 /\ "error" \in DOMAIN response.body
           \/ /\ response.status \in {400, 500}
              /\ DOMAIN response.body = {"error", "message"}
              /\ response.body.error = TRUE

\* C3: under an unsupported provider every analyze request that carries a
\* message is answered with 400 and no outbound call is made for it.
C3_UnsupportedProvider400 ==
    (route = "analyze" /\ CarriesMessage(data)
        /\ API_PROVIDER \notin {"openai", "anthropic"}) =>
        /\ pc = "idle"
        /\ response.status = 400
        /\ outbound = <<>>
        /\ upstream = NoUpstream

C3_Witness ==
    /\ route = "analyze"
    /\ CarriesMessage(data)
    /\ data.fields["message"].words # <<>>
    /\ API_PROVIDER = "azure"
    /\ Truthy(API_KEY)
    /\ response.status = 400
    /\ response.body.error = TRUE

\* the request body is an object with a non-empty message and with options
\* absent or an object
WellFormed(d) ==
    /\ CarriesMessage(d)
    /\ d.fields["message"].words # <<>>
    /\ "options" \in DOMAIN d.fields => d.fields["options"].type = "object"

\* C4: an analyze request handled while no API key is configured is
\* answered with 400 (stated for the well-formed requests).
C4_MissingKey400 ==
    (Answered /\ WellFormed(data) /\ ~Truthy(API_KEY)) => response.status = 400

\* C5: an analyze request that passes validation under a supported provider
\* is answered after exactly one outbound call, and when that call failed
\* (exception or non-200) the answer is 500 and the reply was not parsed.
C5_ExactlyOneCall ==
    (Answered /\ CarriesMessage(data)
        /\ API_PROVIDER \in {"openai", "anthropic"}) =>
        /\ Len(outbound) = 1
        /\ (upstream.kind = "exception"
            \/ (upstream.kind = "response" /\ upstream.status_code # 200))
           => (response.status = 500 /\ parsed = NotRun)

\* the request body is absent, has no message field or has an empty message
NoOrEmptyMessage(d) ==
    \/ PyNot(d)
    \/ d.type = "object" /\ "message" \notin DOMAIN d.fields
    \/ CarriesMessage(d) /\ d.fields["message"].words = <<>>

\* C6: a request without a non-empty message is answered with 400 and makes
\* no outbound call; every outbound call carries a non-empty message.
C6_NonEmptyMessageRequired ==
    /\ (route = "analyze" /\ NoOrEmptyMessage(data)) =>
            (pc = "idle" /\ response.status = 400 /\ outbound = <<>>)
    /\ \A i \in 1..Len(outbound) :
            outbound[i].payload.content.message.words # <<>>

\* C7: every result returned with error=false has a sentiment among
\* positive, negative and neutral.
C7_SentimentDomain ==
    (parsed.kind = "return" /\ parsed.value.error = FALSE) =>
        parsed.value.sentiment \in Sentiments

\* C8: every JSON body of the analyze endpoint with error=true carries a
\* message and none of sentiment, summary, keywords; every body with
\* error=false carries all three.
C8_ErrorBodyShape ==
    (Answered /\ response.json) =>
        /\ "error" \in DOMAIN response.body
        /\ response.body.error = TRUE =>
              /\ "message" \in DOMAIN response.body
              /\ response.body.message # ""
              /\ DOMAIN response.body \cap AnalysisFields = {}
        /\ response.body.error = FALSE =>
              AnalysisFields \subseteq DOMAIN response.body

\* a parse failure returned with 200
C8_Witness ==
    /\ Answered
    /\ response.status = 200
    /\ response.body.error = TRUE
    /\ parsed.kind = "return"
    /\ DecodeFails(response_text)

\* C9: the status endpoint answers 200 with status ok, the provider and the
\* model exactly when a key is configured and the provider is known, and
\* 400 otherwise.
C9_StatusEndpoint ==
    route = "status" =>
        LET configured == API_KEY # None /\ API_KEY # ""
            known == API_PROVIDER \in {"openai", "anthropic"}
        IN  /\ (configured /\ known) =>
                  /\ response.status = 200
                  /\ response.body.status = "ok"
                  /\ response.body.provider = API_PROVIDER
                  /\ response.body.model = API_MODEL
            /\ ~(configured /\ known) =>
                  /\ response.status = 400
                  /\ response.body.status = "error"

\* the key is the empty string, the provider is known, the answer is 400
C9_Witness ==
    /\ route = "status"
    /\ API_KEY = ""
    /\ API_PROVIDER = "anthropic"
    /\ response.status = 400

\* C10: the plain-text fallback result is returned iff the text has no
\* brace block; a brace block that fails to decode gives error=true with
\* raw_response equal to the input; one that decodes gives error=false with
\* absent fields defaulted.
C10_PathSelection ==
    parsed # NotRun =>
        LET m == ReSearchBraces(response_text)
            r == parsed.value
            isFallback == /\ r.error = FALSE
                          /\ "raw_response" \in DOMAIN r
                          /\ r.raw_response = response_text
                          /\ r.keywords = <<>>
        IN  /\ parsed.kind = "return"
            /\ isFallback <=> ~m.matched
            /\ (m.matched /\ DecodeFails(response_text)) =>
                  /\ r.error = TRUE
                  /\ r.raw_response = response_text
            /\ (m.matched /\ ~DecodeFails(response_text)) =>
                  /\ r.error = FALSE
                  /\ r.sentiment # ""
                  /\ {"summary", "keywords", "suggestion"} \subseteq DOMAIN r

====
